---- MODULE Spec2Model ----
(***************************************************************************)
(* Model of src/DQ/dq_checks.py: class DQ, a rule-based data-quality       *)
(* auditor.  A DataFrame is a record [cols, int64, rows]: the set of       *)
(* column names, the columns of nullable-integer dtype, and the sequence   *)
(* of rows (records column -> cell).  A cell is <<v>> for a value and <<>> *)
(* for a missing one (NaN, or <NA> in a column of int64).  A source table  *)
(* (one CSV file) is a record [exists, cols, rows] whose rows hold plain   *)
(* integers; exists = FALSE is a file pd.read_csv cannot load.             *)
(***************************************************************************)
EXTENDS Integers, Sequences, FiniteSets, TLC

VARIABLES
    tables,        \* the CSV files under data_path: table name -> source table
    input_tables,  \* self.input_tables: rule tag -> table specification
    th_values,     \* self.th_values: rule tag -> threshold
    lvl_data,      \* self.lvl_data: sequence of <<dimension, hierarchy table>>
    dqo,           \* self.data_quality_output
    pc,            \* the stage the running check() is at; outside of check():
                   \* "idle" after construction, else the call that returned last
    found,         \* the per-stage "Found n ..." counts printed by check()
    summary        \* the value last returned by get_summary()

vars == <<tables, input_tables, th_values, lvl_data, dqo, pc, found, summary>>

(***************************************************************************)
(* Bounds of the model.                                                    *)
(***************************************************************************)
MaxRows == 2
MaxIssues == 1002
MaxFindings == 3

(***************************************************************************)
(* Column names.  TLC strings are atomic, so the substring tests of the    *)
(* code are tabulated over the column names the model uses.                *)
(***************************************************************************)
\* 'ID' in col.upper()
IsIdCol(col) == col \in {"PRODUCT_ID", "LOCATION_ID", "CUSTOMER_ID"}

\* 'ID' in col.upper() and ('PRODUCT' in col.upper() or 'LOCATION' in col.upper())
IsEntityIdCol(col) == IsIdCol(col) /\ col \in {"PRODUCT_ID", "LOCATION_ID"}

\* col.endswith('_DT')
IsDateCol(col) == col \in {"PERIOD_DT"}

\* the order in which the columns of a key are compared when keys are sorted
ColRank(col) ==
    CASE col = "PRODUCT_ID" -> 1
      [] col = "LOCATION_ID" -> 2
      [] col = "CUSTOMER_ID" -> 3
      [] col = "PERIOD_DT" -> 4
      [] OTHER -> 5

(***************************************************************************)
(* DataFrame helpers.                                                      *)
(***************************************************************************)
Range(s) == {s[i] : i \in 1..Len(s)}

\* pd.DataFrame()
EmptyFrame == [cols |-> {}, int64 |-> {}, rows |-> <<>>]

\* a row of a source table as a row of cells
Cells(r) == [c \in DOMAIN r |-> <<r[c]>>]

\* df[cols] of a sequence of rows
Project(rows, cols) == [i \in 1..Len(rows) |-> [c \in cols |-> rows[i][c]]]

\* a row reindexed to the columns cols: the cells it lacks are missing
Pad(r, cols) == [c \in cols |-> IF c \in DOMAIN r THEN r[c] ELSE <<>>]

\* an assignment of the new rows in place of the concatenation
ConcatReplacing(df, newcols, new) ==
    [cols |-> newcols, int64 |-> {},
     rows |-> [i \in 1..Len(new) |-> Pad(new[i], newcols)]]

\* pd.concat([df, new], ignore_index=True), new a non-empty sequence of rows that
\* all have the columns newcols
Concat(df, newcols, new) ==
    LET cols == df.cols \cup newcols IN
    [cols |-> cols,
     int64 |-> df.int64,
     rows |-> [i \in 1..Len(df.rows) |-> Pad(df.rows[i], cols)]
              \o [i \in 1..Len(new) |-> Pad(new[i], cols)]]

\* a tagging that leaves the WARNING text out
TagWithoutWarning(rows, meta) ==
    [i \in 1..Len(rows) |->
        [c \in (DOMAIN rows[i] \cup DOMAIN meta) \ {"WARNING"} |->
            IF c \in DOMAIN meta THEN <<meta[c]>> ELSE rows[i][c]]]

\* rows with the metadata columns of meta set to one value each
Tag(rows, meta) ==
    [i \in 1..Len(rows) |->
        [c \in DOMAIN rows[i] \cup DOMAIN meta |->
            IF c \in DOMAIN meta THEN <<meta[c]>> ELSE rows[i][c]]]

\* DataFrame.drop_duplicates(): the first occurrence of every row, in order
RECURSIVE DropDuplicates(_)
DropDuplicates(rows) ==
    IF rows = <<>> THEN <<>>
    ELSE LET n == Len(rows)
             init == DropDuplicates(SubSeq(rows, 1, n - 1))
         IN IF rows[n] \in Range(init) THEN init ELSE Append(init, rows[n])

\* an anti-join that looks every column up on its own
LeftOnlyPerColumn(left, right) ==
    SelectSeq(left, LAMBDA r : \E c \in DOMAIN r :
                                  \A q \in Range(right) : q[c] # r[c])

\* left.merge(right, on=all columns, how='left', indicator=True) followed by
\* the selection _merge == 'left_only'; right holds no duplicates
LeftOnly(left, right) == SelectSeq(left, LAMBDA r : r \notin Range(right))

\* pd.read_csv(self.data_path + name + '.csv') succeeds
Loads(T, name) == name \in DOMAIN T /\ T[name].exists

(***************************************************************************)
(* check_val_range                                                         *)
(***************************************************************************)
\* a comparison that also selects the values at the threshold
BelowOrEqual(v, th) == v <= th

\* table[target_col] < th
Below(v, th) == v < th

\* the body of the loop of check_val_range for one (table_name, target_col)
ValRangeUnit(df, T, pair, th) ==
    LET table_name == pair[1]
        target_col == pair[2]
    IN IF ~Loads(T, table_name) THEN df
       ELSE IF target_col \notin T[table_name].cols THEN df
       ELSE LET bad_rows == SelectSeq(T[table_name].rows,
                                      LAMBDA r : Below(r[target_col], th))
            IN IF Len(bad_rows) > 0
               THEN Concat(df,
                      T[table_name].cols \cup {"INPUT_COLUMN", "INPUT_TABLE",
                          "INPUT_VALUE", "WARNING_TYPE", "WARNING"},
                      Tag([i \in 1..Len(bad_rows) |-> Cells(bad_rows[i])],
                          [INPUT_COLUMN |-> target_col,
                           INPUT_TABLE |-> table_name,
                           INPUT_VALUE |-> th,
                           WARNING_TYPE |-> "val_range",
                           WARNING |-> [text |-> "is below threshold",
                                        column |-> target_col,
                                        sample |-> bad_rows[1][target_col],
                                        th |-> th,
                                        table |-> table_name]]))
               ELSE df

RECURSIVE CheckValRange(_, _, _, _)
CheckValRange(df, T, tl, th) ==
    IF tl = <<>> THEN df
    ELSE CheckValRange(ValRangeUnit(df, T, Head(tl), th), T, Tail(tl), th)

(***************************************************************************)
(* check_cross_consistency                                                 *)
(***************************************************************************)
\* list(itertools.permutations(tables, 2)): the ordered pairs of positions
\* i # j of the list, in lexicographic order of (i, j)
Permutations2(tl) ==
    LET n == Len(tl) IN
    [k \in 1..(n * (n - 1)) |->
        LET i == ((k - 1) \div (n - 1)) + 1
            m == (k - 1) % (n - 1)
            j == IF m + 1 < i THEN m + 1 ELSE m + 2
        IN <<tl[i], tl[j]>>]

\* the columns compared by check_cross_consistency for a pair of tables
CommonIdCols(t1, t2) == {c \in t1.cols \cap t2.cols : IsIdCol(c)}

\* f'{table1_name} && {table2_name}'
PairName(table1_name, table2_name) == table1_name \o " && " \o table2_name

\* the body of the loop of check_cross_consistency for one ordered pair
CrossUnit(df, T, pair) ==
    LET table1_name == pair[1]
        table2_name == pair[2]
    IN IF ~Loads(T, table1_name) \/ ~Loads(T, table2_name) THEN df
       ELSE LET common_id_cols == CommonIdCols(T[table1_name], T[table2_name])
            IN IF common_id_cols = {} THEN df
               ELSE LET unique_ids_table1 ==
                            DropDuplicates(Project(T[table1_name].rows, common_id_cols))
                        unique_ids_table2 ==
                            DropDuplicates(Project(T[table2_name].rows, common_id_cols))
                        orphaned == LeftOnly(unique_ids_table1, unique_ids_table2)
                    IN IF Len(orphaned) > 0
                       THEN Concat(df,
                              common_id_cols \cup {"INPUT_TABLE", "WARNING_TYPE", "WARNING"},
                              Tag([i \in 1..Len(orphaned) |-> Cells(orphaned[i])],
                                  [INPUT_TABLE |-> PairName(table1_name, table2_name),
                                   WARNING_TYPE |-> "cross_consistency",
                                   WARNING |-> [text |-> "IDs not found",
                                                from |-> table1_name,
                                                in |-> table2_name]]))
                       ELSE df

\* a loop that a failing pair ends: the try around the loop, not inside it
RECURSIVE CrossLoopAborting(_, _, _)
CrossLoopAborting(df, T, pairs) ==
    IF pairs = <<>> THEN df
    ELSE IF ~Loads(T, Head(pairs)[1]) \/ ~Loads(T, Head(pairs)[2]) THEN df
    ELSE CrossLoopAborting(CrossUnit(df, T, Head(pairs)), T, Tail(pairs))

\* for table1_name, table2_name in table_pairs
RECURSIVE CrossLoop(_, _, _)
CrossLoop(df, T, pairs) ==
    IF pairs = <<>> THEN df
    ELSE CrossLoop(CrossUnit(df, T, Head(pairs)), T, Tail(pairs))

CheckCrossConsistency(df, T, tl) == CrossLoop(df, T, Permutations2(tl))

(***************************************************************************)
(* check_time_cross_consistency                                            *)
(***************************************************************************)
\* a gate that also lets the percentage at the threshold through
MissingPctAtLeast(missing_count, total_records, th) ==
    IF total_records > 0
    THEN missing_count * 100 >= th * total_records
    ELSE 0 >= th

\* missing_pct > th, with missing_pct = missing_count / total_records * 100
\* if total_records > 0 else 0.  For the key counts of this model the float
\* quotient compares with an integer th as the exact fraction does.
MissingPctExceeds(missing_count, total_records, th) ==
    IF total_records > 0
    THEN missing_count * 100 > th * total_records
    ELSE 0 > th

\* a cutoff that spares the entities seen in exactly th periods
InfrequentStrict(period_count, th) == period_count < th

\* id_date_counts['period_count'] <= th
Infrequent(period_count, th) == period_count <= th

\* key a sorts before key b: the keys are compared column by column
KeyLess(a, b) ==
    \E c \in DOMAIN a :
        /\ a[c] < b[c]
        /\ \A d \in DOMAIN a : ColRank(d) < ColRank(c) => a[d] = b[d]

RECURSIVE SortKeys(_)
SortKeys(S) ==
    IF S = {} THEN <<>>
    ELSE LET m == CHOOSE x \in S : \A y \in S \ {x} : KeyLess(x, y)
         IN <<m>> \o SortKeys(S \ {m})

\* table1.groupby(id_columns)[date_col].nunique().reset_index(), one row per
\* group, sorted by the group key, with the count in period_count
PeriodCounts(rows, id_columns, date_col) ==
    LET groups == SortKeys(Range(Project(rows, id_columns)))
    IN [g \in 1..Len(groups) |->
          [key |-> groups[g],
           period_count |->
               Cardinality({rows[i][date_col] :
                   i \in {k \in 1..Len(rows) :
                            [c \in id_columns |-> rows[k][c]] = groups[g]}})]]

\* the body of the loop of check_time_cross_consistency for one pair
TimeUnit(df, T, pair, th) ==
    LET table1_name == pair[1]
        table2_name == pair[2]
    IN IF ~Loads(T, table1_name) \/ ~Loads(T, table2_name) THEN df
       ELSE
       LET table1 == T[table1_name]
           table2 == T[table2_name]
           common_columns == table1.cols \cap table2.cols
           id_columns == {c \in common_columns : IsEntityIdCol(c)}
           date_columns == {c \in common_columns : IsDateCol(c)}
       IN IF id_columns = {} \/ date_columns = {} THEN df
          ELSE
          LET key_columns == id_columns \cup date_columns
              unique_keys_table1 == DropDuplicates(Project(table1.rows, key_columns))
              unique_keys_table2 == DropDuplicates(Project(table2.rows, key_columns))
              missing_records == LeftOnly(unique_keys_table1, unique_keys_table2)
              missing_count == Len(missing_records)
              total_records == Len(unique_keys_table1)
              df1 == IF missing_count > 0
                        /\ MissingPctExceeds(missing_count, total_records, th)
                     THEN Concat(df,
                            key_columns \cup {"INPUT_TABLE", "INPUT_VALUE",
                                              "WARNING_TYPE", "WARNING"},
                            Tag([i \in 1..missing_count |-> Cells(missing_records[i])],
                                [INPUT_TABLE |-> PairName(table1_name, table2_name),
                                 INPUT_VALUE |-> th,
                                 WARNING_TYPE |-> "time_cross_consistency",
                                 WARNING |-> [text |-> "records missing",
                                              count |-> missing_count,
                                              of |-> total_records,
                                              from |-> table1_name,
                                              in |-> table2_name]]))
                     ELSE df
              \* date_columns[0]
              date_col == CHOOSE c \in date_columns :
                              \A d \in date_columns : ColRank(c) <= ColRank(d)
              id_date_counts == PeriodCounts(table1.rows, id_columns, date_col)
              infrequent == SelectSeq(id_date_counts,
                                      LAMBDA g : Infrequent(g.period_count, th))
          IN IF Len(infrequent) > 0
             THEN Concat(df1,
                    id_columns \cup {"INPUT_TABLE", "INPUT_VALUE",
                                     "WARNING_TYPE", "WARNING"},
                    Tag([i \in 1..Len(infrequent) |-> Cells(infrequent[i].key)],
                        [INPUT_TABLE |-> table1_name,
                         INPUT_VALUE |-> th,
                         WARNING_TYPE |-> "time_cross_consistency",
                         WARNING |-> [text |-> "ID appears in th or fewer time periods",
                                      th |-> th,
                                      in |-> table1_name]]))
             ELSE df1

RECURSIVE CheckTimeCrossConsistency(_, _, _, _)
CheckTimeCrossConsistency(df, T, tl, th) ==
    IF tl = <<>> THEN df
    ELSE CheckTimeCrossConsistency(TimeUnit(df, T, Head(tl), th), T, Tail(tl), th)

(***************************************************************************)
(* format_output                                                           *)
(***************************************************************************)
MaxLevels == 2

\* f'{dimension_name}_LVL_ID' in col, over the columns of the hierarchy tables
LevelColumns(dimension_name) ==
    {dimension_name \o "_LVL_ID" \o ToString(n) : n \in 1..MaxLevels}

\* the body of the loop of format_output for one dimension of lvl_data
FormatUnit(df, T, item) ==
    LET dimension_name == item[1]
        hierarchy_table_name == item[2]
        id_col_name == dimension_name \o "_ID"
    IN IF id_col_name \notin df.cols THEN df
       ELSE IF ~Loads(T, hierarchy_table_name) THEN df
       ELSE
       LET level_cols == T[hierarchy_table_name].cols \cap LevelColumns(dimension_name)
           num_levels == Cardinality(level_cols)
           target_level == num_levels + 1
           lvl_id == dimension_name \o "_LVL_ID" \o ToString(target_level)
           lvl == dimension_name \o "_LVL"
           cols == (df.cols \cup {lvl_id, lvl}) \ {id_col_name}
       IN [cols |-> cols,
           \* .astype('Int64') keeps every value and turns NaN into <NA>
           int64 |-> ((df.int64 \cup {lvl_id}) \ {lvl}) \cap cols,
           rows |-> [i \in 1..Len(df.rows) |->
                       [c \in cols |->
                           IF c = lvl THEN <<target_level>>
                           ELSE IF c = lvl_id THEN df.rows[i][id_col_name]
                           ELSE df.rows[i][c]]]]

\* a conversion that leaves the {DIM}_ID column in place
FormatUnitKeepingId(df, T, item) ==
    LET converted == FormatUnit(df, T, item)
        id_col_name == item[1] \o "_ID"
    IN IF converted = df THEN df
       ELSE [cols |-> converted.cols \cup {id_col_name},
             int64 |-> converted.int64,
             rows |-> [i \in 1..Len(df.rows) |->
                         [c \in converted.cols \cup {id_col_name} |->
                             IF c = id_col_name THEN df.rows[i][c]
                             ELSE converted.rows[i][c]]]]

\* the conversion of one dimension, as format_output applies it
ConvertDimension(df, T, item) == FormatUnit(df, T, item)

\* for dimension_name, hierarchy_table_name in lvl_data.items()
RECURSIVE FormatLoop(_, _, _)
FormatLoop(df, T, items) ==
    IF items = <<>> THEN df
    ELSE FormatLoop(ConvertDimension(df, T, Head(items)), T, Tail(items))

\* DataFrame.empty
IsEmpty(df) == df.rows = <<>> \/ df.cols = {}

FormatOutput(df, T, lvl) == IF IsEmpty(df) THEN df ELSE FormatLoop(df, T, lvl)

(***************************************************************************)
(* get_summary                                                             *)
(***************************************************************************)
CriticalAbove == 1000
HighAbove == 100
MediumAbove == 10

\* breakpoints that already count for the higher class
SeverityInclusive(total) ==
    IF total >= CriticalAbove THEN "CRITICAL"
    ELSE IF total >= HighAbove THEN "HIGH"
    ELSE IF total >= MediumAbove THEN "MEDIUM"
    ELSE "LOW"

\* summary['severity'], from total = summary['total_issues']
Severity(total) ==
    IF total > CriticalAbove THEN "CRITICAL"
    ELSE IF total > HighAbove THEN "HIGH"
    ELSE IF total > MediumAbove THEN "MEDIUM"
    ELSE "LOW"

\* df[col].value_counts().to_dict(): the count of every value present
ValueCounts(df, col) ==
    LET present == {i \in 1..Len(df.rows) : df.rows[i][col] # <<>>}
        values == {df.rows[i][col][1] : i \in present}
    IN [v \in values |-> Cardinality({i \in present : df.rows[i][col][1] = v})]

GetSummary(df) ==
    IF IsEmpty(df)
    THEN [total_issues |-> 0,
          by_type |-> [v \in {} |-> 0],
          by_table |-> [v \in {} |-> 0],
          message |-> "No data quality issues found"]
    ELSE [total_issues |-> Len(df.rows),
          by_type |-> IF "WARNING_TYPE" \in df.cols
                      THEN ValueCounts(df, "WARNING_TYPE") ELSE [v \in {} |-> 0],
          by_table |-> IF "INPUT_TABLE" \in df.cols
                       THEN ValueCounts(df, "INPUT_TABLE") ELSE [v \in {} |-> 0],
          severity |-> Severity(Len(df.rows))]

(***************************************************************************)
(* check(): the four stages, one step each                                 *)
(***************************************************************************)
\* a check() that keeps the findings of the calls before it
KeepOutput(df) == df

\* self.data_quality_output = pd.DataFrame()
ResetOutput(df) == EmptyFrame

\* no check() is running
Quiet == pc \notin {"VALUE_RANGE", "CROSS_CONSISTENCY", "TIME_CONSISTENCY", "FORMAT"}

Config == <<tables, input_tables, th_values, lvl_data>>

CheckStart ==
    /\ Quiet
    /\ dqo' = ResetOutput(dqo)
    /\ found' = <<>>
    /\ pc' = "VALUE_RANGE"
    /\ UNCHANGED <<Config, summary>>

\* the findings after the value-range stage
RunValRange(df, T, it, tv) ==
    IF "val_range" \in DOMAIN it /\ "val_range" \in DOMAIN tv
    THEN CheckValRange(df, T, it["val_range"], tv["val_range"])
    ELSE df

\* the findings after the cross-consistency stage
RunCross(df, T, it) ==
    IF "cross_consistency" \in DOMAIN it
    THEN CheckCrossConsistency(df, T, it["cross_consistency"])
    ELSE df

\* the findings after the time-consistency stage
RunTime(df, T, it, tv) ==
    IF "time_cross_consistency" \in DOMAIN it /\ "time_cross_consistency" \in DOMAIN tv
    THEN CheckTimeCrossConsistency(df, T, it["time_cross_consistency"],
                                   tv["time_cross_consistency"])
    ELSE df

\* found = len(self.data_quality_output) - initial_count, printed when the
\* stage is configured
Report(tag, configured, before, after) ==
    IF configured
    THEN [t \in DOMAIN found \cup {tag} |->
             IF t = tag THEN Len(after.rows) - Len(before.rows) ELSE found[t]]
    ELSE found

StageValRange ==
    /\ pc = "VALUE_RANGE"
    /\ dqo' = RunValRange(dqo, tables, input_tables, th_values)
    /\ found' = Report("val_range",
                       "val_range" \in DOMAIN input_tables
                           /\ "val_range" \in DOMAIN th_values,
                       dqo, dqo')
    /\ pc' = "CROSS_CONSISTENCY"
    /\ UNCHANGED <<Config, summary>>

StageCross ==
    /\ pc = "CROSS_CONSISTENCY"
    /\ dqo' = RunCross(dqo, tables, input_tables)
    /\ found' = Report("cross_consistency",
                       "cross_consistency" \in DOMAIN input_tables, dqo, dqo')
    /\ pc' = "TIME_CONSISTENCY"
    /\ UNCHANGED <<Config, summary>>

StageTime ==
    /\ pc = "TIME_CONSISTENCY"
    /\ dqo' = RunTime(dqo, tables, input_tables, th_values)
    /\ found' = Report("time_cross_consistency",
                       "time_cross_consistency" \in DOMAIN input_tables
                           /\ "time_cross_consistency" \in DOMAIN th_values,
                       dqo, dqo')
    /\ pc' = "FORMAT"
    /\ UNCHANGED <<Config, summary>>

StageFormat ==
    /\ pc = "FORMAT"
    /\ dqo' = FormatOutput(dqo, tables, lvl_data)
    /\ pc' = "DONE"
    /\ UNCHANGED <<Config, found, summary>>

\* summary = dq.get_summary()
CallGetSummary ==
    /\ Quiet
    /\ summary' = GetSummary(dqo)
    /\ UNCHANGED <<Config, dqo, pc, found>>

(***************************************************************************)
(* The checkers and the formatter called directly, with the configuration  *)
(* of the object as arguments.                                             *)
(***************************************************************************)
CallCheckValRange ==
    /\ Quiet
    /\ Len(dqo.rows) <= MaxFindings
    /\ "val_range" \in DOMAIN input_tables /\ "val_range" \in DOMAIN th_values
    /\ dqo' = CheckValRange(dqo, tables, input_tables["val_range"],
                            th_values["val_range"])
    /\ pc' = "check_val_range"
    /\ UNCHANGED <<Config, found, summary>>

CallCheckCrossConsistency ==
    /\ Quiet
    /\ Len(dqo.rows) <= MaxFindings
    /\ "cross_consistency" \in DOMAIN input_tables
    /\ dqo' = CheckCrossConsistency(dqo, tables, input_tables["cross_consistency"])
    /\ pc' = "check_cross_consistency"
    /\ UNCHANGED <<Config, found, summary>>

CallCheckTimeCrossConsistency ==
    /\ Quiet
    /\ Len(dqo.rows) <= MaxFindings
    /\ "time_cross_consistency" \in DOMAIN input_tables
    /\ "time_cross_consistency" \in DOMAIN th_values
    /\ dqo' = CheckTimeCrossConsistency(dqo, tables,
                  input_tables["time_cross_consistency"],
                  th_values["time_cross_consistency"])
    /\ pc' = "check_time_cross_consistency"
    /\ UNCHANGED <<Config, found, summary>>

CallFormatOutput ==
    /\ Quiet
    /\ dqo' = FormatOutput(dqo, tables, lvl_data)
    /\ pc' = "format_output"
    /\ UNCHANGED <<Config, found, summary>>

(***************************************************************************)
(* Source tables and configurations.                                       *)
(***************************************************************************)
\* the values a cell of a column takes
Values(col) == IF col = "PRICE" THEN -1..1 ELSE 1..2

RowsOver(cols) == {r \in [cols -> -1..2] : \A c \in cols : r[c] \in Values(c)}

SeqsUpTo(S, n) == UNION {[1..k -> S] : k \in 0..n}

\* the CSV files with the header cols and at most MaxRows rows
TablesOver(cols) ==
    {[exists |-> TRUE, cols |-> cols, rows |-> rs] :
        rs \in SeqsUpTo(RowsOver(cols), MaxRows)}

\* a file that is missing or malformed
NoTable == [exists |-> FALSE, cols |-> {}, rows |-> <<>>]

\* a hierarchy table of a dimension with n level columns
Hierarchy(dimension_name, n) ==
    [exists |-> TRUE,
     cols |-> {dimension_name \o "_LVL_ID" \o ToString(k) : k \in 1..n}
                  \cup {dimension_name \o "_NAME"},
     rows |-> <<>>]

\* the state after DQ.__init__
Constructed ==
    /\ dqo = EmptyFrame
    /\ pc = "idle"
    /\ found = <<>>
    /\ summary = [returned |-> FALSE]

\* one run of check() after the other
NextCheck ==
    \/ CheckStart
    \/ StageValRange
    \/ StageCross
    \/ StageTime
    \/ StageFormat

(***************************************************************************)
(* Value-range checks over a price table.                                  *)
(***************************************************************************)
ValRangeLists ==
    {<< <<"PRICES", "PRICE">> >>,
     << <<"PRICES", "PRICE">>, <<"PRICES", "PRICE">> >>,
     << <<"PRICES", "COST">>, <<"COSTS", "PRICE">> >>,
     << <<"COSTS", "PRICE">>, <<"PRICES", "PRICE">> >>,
     << <<"PRICES", "PRODUCT_ID">> >>}

InitVal ==
    /\ \E t \in TablesOver({"PRODUCT_ID", "PRICE"}) :
       \E g \in {NoTable,
                 [exists |-> TRUE, cols |-> {"PRICE"},
                  rows |-> <<[PRICE |-> -1], [PRICE |-> 1]>>]} :
           tables = [PRICES |-> t, COSTS |-> g]
    /\ \E tl \in ValRangeLists : input_tables = [val_range |-> tl]
    /\ \E th \in 0..2 : th_values = [val_range |-> th]
    /\ lvl_data = <<>>
    /\ Constructed

SpecVal == InitVal /\ [][NextCheck]_vars

\* the number of positions of the sequence s that hold x
Occurrences(s, x) == Cardinality({i \in 1..Len(s) : s[i] = x})

\* the value-range stage of check() has run and the formatter has not
AfterValRange == pc \in {"CROSS_CONSISTENCY", "TIME_CONSISTENCY", "FORMAT"}

\* C2: after check_val_range(tables, th), for every listed (table, column)
\* whose table loads and holds the column, a row of the table is among the
\* findings, tagged val_range, once per listing of the pair, if and only if
\* its value in the column is strictly below th; no other finding is added
C2_ValRangeStrictlyBelow ==
    AfterValRange =>
        LET tl == input_tables["val_range"]
            th == th_values["val_range"]
        IN /\ \A i \in 1..Len(dqo.rows) :
                 LET f == dqo.rows[i] IN
                 /\ f["WARNING_TYPE"] = <<"val_range">>
                 /\ \E k \in 1..Len(tl) :
                       /\ f["INPUT_TABLE"] = <<tl[k][1]>>
                       /\ f["INPUT_COLUMN"] = <<tl[k][2]>>
                       /\ Loads(tables, tl[k][1])
                       /\ tl[k][2] \in tables[tl[k][1]].cols
           /\ \A k \in 1..Len(tl) :
                 LET name == tl[k][1]
                     col == tl[k][2]
                 IN Loads(tables, name) /\ col \in tables[name].cols =>
                    \A r \in Range(tables[name].rows) :
                        Cardinality({i \in 1..Len(dqo.rows) :
                            /\ dqo.rows[i]["INPUT_TABLE"] = <<name>>
                            /\ dqo.rows[i]["INPUT_COLUMN"] = <<col>>
                            /\ \A c \in DOMAIN r : dqo.rows[i][c] = <<r[c]>>})
                        = IF r[col] < th
                          THEN Occurrences(tl, tl[k]) * Occurrences(tables[name].rows, r)
                          ELSE 0

\* a table with a row at the threshold and a row below it has been checked
C2_Witness ==
    /\ AfterValRange
    /\ Loads(tables, "PRICES")
    /\ input_tables["val_range"][1] = <<"PRICES", "PRICE">>
    /\ \E r \in Range(tables["PRICES"].rows) : r["PRICE"] = th_values["val_range"]
    /\ \E r \in Range(tables["PRICES"].rows) : r["PRICE"] < th_values["val_range"]
    /\ Len(dqo.rows) > 0

(***************************************************************************)
(* Cross-consistency checks over sales, products and stock.                *)
(***************************************************************************)
CrossLists ==
    {<<"SALES", "PRODUCTS">>, <<"PRODUCTS", "SALES">>,
     <<"SALES", "PRODUCTS", "STOCK">>}

InitCross ==
    /\ \E s \in TablesOver({"PRODUCT_ID", "LOCATION_ID"}) :
       \E p \in TablesOver({"PRODUCT_ID", "LOCATION_ID"})
                    \cup TablesOver({"PRODUCT_ID"}) \cup {NoTable} :
       \E k \in {[exists |-> TRUE, cols |-> {"PRODUCT_ID", "PRICE"},
                  rows |-> <<[PRODUCT_ID |-> 1, PRICE |-> 1]>>],
                 [exists |-> TRUE, cols |-> {"CUSTOMER_ID", "PRICE"},
                  rows |-> <<[CUSTOMER_ID |-> 1, PRICE |-> 1]>>]} :
           tables = [SALES |-> s, PRODUCTS |-> p, STOCK |-> k]
    /\ \E tl \in CrossLists : input_tables = [cross_consistency |-> tl]
    /\ th_values = <<>>
    /\ lvl_data = <<>>
    /\ Constructed

SpecCross == InitCross /\ [][NextCheck]_vars

\* the cross-consistency stage of check() has run and the formatter has not
AfterCross == pc \in {"TIME_CONSISTENCY", "FORMAT"}

\* the distinct value-tuples of a source table over the columns ids
KeySet(t, ids) == {[c \in ids |-> r[c]] : r \in Range(t.rows)}

\* the positions of the findings whose INPUT_TABLE is name
FindingsOf(name) ==
    {i \in 1..Len(dqo.rows) : dqo.rows[i]["INPUT_TABLE"] = <<name>>}

\* C1: after check_cross_consistency over a list of distinct tables, for every
\* ordered pair (A, B) of them that load and share an ID column, the findings
\* with INPUT_TABLE "A && B" are, once each, the value-tuples over all common
\* ID columns that occur in A and do not occur as a whole in B
C1_OrphanedTuples ==
    AfterCross =>
        LET tl == input_tables["cross_consistency"] IN
        \A i \in 1..Len(tl) : \A j \in 1..Len(tl) \ {i} :
            LET a == tl[i]
                b == tl[j]
            IN Loads(tables, a) /\ Loads(tables, b)
                   /\ CommonIdCols(tables[a], tables[b]) # {} =>
               LET ids == CommonIdCols(tables[a], tables[b])
                   expected == KeySet(tables[a], ids) \ KeySet(tables[b], ids)
                   hits == FindingsOf(PairName(a, b))
               IN /\ \A h \in hits :
                        /\ dqo.rows[h]["WARNING_TYPE"] = <<"cross_consistency">>
                        /\ \A c \in ids : dqo.rows[h][c] # <<>>
                  /\ {[c \in ids |-> dqo.rows[h][c][1]] : h \in hits} = expected
                  /\ Cardinality(hits) = Cardinality(expected)

\* a tuple of SALES whose every projection occurs in PRODUCTS, but not the
\* tuple, has been flagged, and so has a tuple of PRODUCTS missing from SALES
C1_Witness ==
    /\ AfterCross
    /\ tables["SALES"].cols = {"PRODUCT_ID", "LOCATION_ID"}
    /\ tables["PRODUCTS"].cols = {"PRODUCT_ID", "LOCATION_ID"}
    /\ \E r \in Range(tables["SALES"].rows) :
          /\ r \notin Range(tables["PRODUCTS"].rows)
          /\ \E q \in Range(tables["PRODUCTS"].rows) :
                q["PRODUCT_ID"] = r["PRODUCT_ID"]
          /\ \E q \in Range(tables["PRODUCTS"].rows) :
                q["LOCATION_ID"] = r["LOCATION_ID"]
          /\ \E h \in FindingsOf("SALES && PRODUCTS") :
                /\ dqo.rows[h]["PRODUCT_ID"] = <<r["PRODUCT_ID"]>>
                /\ dqo.rows[h]["LOCATION_ID"] = <<r["LOCATION_ID"]>>
    /\ FindingsOf("PRODUCTS && SALES") # {}

(***************************************************************************)
(* Time-consistency checks over sales and stock by period.                 *)
(***************************************************************************)
TimeLists ==
    {<< <<"SALES", "STOCK">> >>,
     << <<"STOCK", "SALES">> >>,
     << <<"SALES", "PRODUCTS">>, <<"SALES", "STOCK">> >>}

TimeThresholds == {0, 1, 50, 100}

InitTime ==
    /\ \/ \E s \in TablesOver({"PRODUCT_ID", "PERIOD_DT"}) :
          \E k \in TablesOver({"PRODUCT_ID", "PERIOD_DT"}) :
              tables = [SALES |-> s, STOCK |-> k,
                        PRODUCTS |-> [exists |-> TRUE, cols |-> {"PRODUCT_ID"},
                                      rows |-> <<[PRODUCT_ID |-> 1]>>]]
       \/ \E s \in TablesOver({"PRODUCT_ID", "LOCATION_ID", "PERIOD_DT"}) :
          \E k \in {[exists |-> TRUE,
                     cols |-> {"PRODUCT_ID", "LOCATION_ID", "PERIOD_DT"},
                     rows |-> <<[PRODUCT_ID |-> 1, LOCATION_ID |-> 1, PERIOD_DT |-> 1],
                                [PRODUCT_ID |-> 2, LOCATION_ID |-> 2, PERIOD_DT |-> 1]>>],
                    [exists |-> TRUE,
                     cols |-> {"PRODUCT_ID", "PERIOD_DT", "PRICE"},
                     rows |-> <<[PRODUCT_ID |-> 1, PERIOD_DT |-> 2, PRICE |-> 0]>>]} :
              tables = [SALES |-> s, STOCK |-> k, PRODUCTS |-> NoTable]
    /\ \E tl \in TimeLists : input_tables = [time_cross_consistency |-> tl]
    /\ \E th \in TimeThresholds : th_values = [time_cross_consistency |-> th]
    /\ lvl_data = <<>>
    /\ Constructed

SpecTime == InitTime /\ [][NextCheck]_vars

\* the time-consistency stage of check() has run and the formatter has not
AfterTime == pc = "FORMAT"

\* the pair of tables passes the ID-column and date-column test
TimePairChecked(pair) ==
    /\ Loads(tables, pair[1]) /\ Loads(tables, pair[2])
    /\ \E c \in tables[pair[1]].cols \cap tables[pair[2]].cols : IsEntityIdCol(c)
    /\ \E c \in tables[pair[1]].cols \cap tables[pair[2]].cols : IsDateCol(c)

EntityCols(pair) ==
    {c \in tables[pair[1]].cols \cap tables[pair[2]].cols : IsEntityIdCol(c)}

DateCols(pair) ==
    {c \in tables[pair[1]].cols \cap tables[pair[2]].cols : IsDateCol(c)}

\* the (ID columns + date columns) tuples of table1 that table2 lacks
MissingKeys(pair) ==
    KeySet(tables[pair[1]], EntityCols(pair) \cup DateCols(pair))
        \ KeySet(tables[pair[2]], EntityCols(pair) \cup DateCols(pair))

Periods(t, ids, date_col, g) ==
    Cardinality({r[date_col] : r \in {x \in Range(t.rows) :
                                          [c \in ids |-> x[c]] = g}})

NegativePrices(n) ==
    [exists |-> TRUE, cols |-> {"PRODUCT_ID", "PRICE"},
     rows |-> [i \in 1..n |-> [PRODUCT_ID |-> 1 + (i % 2), PRICE |-> -1]]]

InitSummary ==
    /\ \E n \in 0..MaxIssues : tables = [PRICES |-> NegativePrices(n)]
    /\ input_tables = [val_range |-> << <<"PRICES", "PRICE">> >>]
    /\ th_values = [val_range |-> 0]
    /\ lvl_data = <<>>
    /\ dqo = CheckValRange(EmptyFrame, tables, input_tables["val_range"],
                           th_values["val_range"])
    /\ pc = "check_val_range"
    /\ found = <<>>
    /\ summary = [returned |-> FALSE]

SpecSummary == InitSummary /\ [][CallGetSummary]_vars

SeverityRank(sev) ==
    CASE sev = "LOW" -> 0
      [] sev = "MEDIUM" -> 1
      [] sev = "HIGH" -> 2
      [] sev = "CRITICAL" -> 3

\* the severity the documented breakpoints assign to n findings
DocumentedSeverity(n) ==
    CASE n > 1000 -> "CRITICAL"
      [] n > 100 /\ n <= 1000 -> "HIGH"
      [] n > 10 /\ n <= 100 -> "MEDIUM"
      [] n <= 10 -> "LOW"

\* C7: get_summary over n >= 1 findings returns total_issues = n and the
\* severity of the documented breakpoints, which never falls as n grows; over
\* no findings it returns total_issues = 0 and no severity at all
C7_SeverityBreakpoints ==
    "total_issues" \in DOMAIN summary =>
        LET n == Len(dqo.rows) IN
        IF n >= 1
        THEN /\ summary["total_issues"] = n
             /\ "severity" \in DOMAIN summary
             /\ summary["severity"] = DocumentedSeverity(n)
             /\ \A m \in 1..n :
                   SeverityRank(Severity(m)) <= SeverityRank(summary["severity"])
             /\ summary["by_type"] = [t \in {"val_range"} |-> n]
        ELSE /\ summary["total_issues"] = 0
             /\ "severity" \notin DOMAIN summary

\* a summary of exactly 1000 findings, the last count that is not CRITICAL
C7_Witness ==
    /\ "severity" \in DOMAIN summary
    /\ summary["total_issues"] = 1000
    /\ summary["severity"] = "HIGH"

(***************************************************************************)
(* The whole object: any sequence of check(), the checkers, the formatter  *)
(* and get_summary over a retail data set, some of whose files may be      *)
(* missing.                                                                *)
(***************************************************************************)
SalesA ==
    [exists |-> TRUE,
     cols |-> {"PRODUCT_ID", "LOCATION_ID", "PERIOD_DT", "PRICE"},
     rows |-> <<[PRODUCT_ID |-> 1, LOCATION_ID |-> 1, PERIOD_DT |-> 1, PRICE |-> -1],
                [PRODUCT_ID |-> 1, LOCATION_ID |-> 1, PERIOD_DT |-> 2, PRICE |-> 1],
                [PRODUCT_ID |-> 2, LOCATION_ID |-> 1, PERIOD_DT |-> 1, PRICE |-> 0]>>]

SalesB ==
    [exists |-> TRUE,
     cols |-> {"PRODUCT_ID", "PERIOD_DT", "PRICE"},
     rows |-> <<[PRODUCT_ID |-> 2, PERIOD_DT |-> 1, PRICE |-> -1]>>]

StockA ==
    [exists |-> TRUE,
     cols |-> {"PRODUCT_ID", "LOCATION_ID", "PERIOD_DT"},
     rows |-> <<[PRODUCT_ID |-> 1, LOCATION_ID |-> 1, PERIOD_DT |-> 1]>>]

ReturnsA ==
    [exists |-> TRUE,
     cols |-> {"PRODUCT_ID", "PRICE"},
     rows |-> <<[PRODUCT_ID |-> 2, PRICE |-> 1]>>]

FullInputTables ==
    [val_range |-> << <<"STOCK", "PERIOD_DT">>, <<"SALES", "PRICE">> >>,
     cross_consistency |-> <<"STOCK", "SALES", "RETURNS">>,
     time_cross_consistency |-> << <<"STOCK", "SALES">>, <<"SALES", "SALES">> >>]

\* the mapping m without the key k
Without(m, k) == [x \in DOMAIN m \ {k} |-> m[x]]

InitAll ==
    /\ \E s \in {SalesA, SalesB, NoTable} :
       \E k \in {StockA, NoTable} :
       \E h \in {Hierarchy("PRODUCT", n) : n \in 1..MaxLevels} \cup {NoTable} :
           tables = [SALES |-> s, STOCK |-> k, RETURNS |-> ReturnsA,
                     PRODUCT_HIER |-> h,
                     LOCATION_HIER |-> Hierarchy("LOCATION", 1)]
    /\ input_tables \in {FullInputTables,
                         Without(FullInputTables, "val_range"),
                         Without(FullInputTables, "cross_consistency"),
                         Without(FullInputTables, "time_cross_consistency")}
    /\ th_values \in {[val_range |-> 1, time_cross_consistency |-> 1],
                      [val_range |-> 2, time_cross_consistency |-> 50],
                      [val_range |-> 1]}
    /\ lvl_data \in {<< <<"PRODUCT", "PRODUCT_HIER">>, <<"LOCATION", "LOCATION_HIER">> >>,
                     << <<"LOCATION", "LOCATION_HIER">> >>}
    /\ Constructed

Next ==
    \/ NextCheck
    \/ CallCheckValRange
    \/ CallCheckCrossConsistency
    \/ CallCheckTimeCrossConsistency
    \/ CallFormatOutput
    \/ CallGetSummary

Spec == InitAll /\ [][Next]_vars

\* the findings of a check() that starts from an empty findings table
FreshCheck(T, it, tv, lvl) ==
    FormatOutput(RunTime(RunCross(RunValRange(EmptyFrame, T, it, tv), T, it), T, it, tv),
                 T, lvl)

\* the configuration without the units of work whose tables do not load
LoadableUnits(T, it) ==
    [tag \in DOMAIN it |->
        CASE tag = "val_range" ->
                 SelectSeq(it[tag], LAMBDA u : Loads(T, u[1]))
          [] tag = "cross_consistency" ->
                 SelectSeq(it[tag], LAMBDA u : Loads(T, u))
          [] tag = "time_cross_consistency" ->
                 SelectSeq(it[tag], LAMBDA u : Loads(T, u[1]) /\ Loads(T, u[2]))]

LoadableDimensions(T, lvl) == SelectSeq(lvl, LAMBDA u : Loads(T, u[2]))

Formatted == pc \in {"format_output", "DONE"}

\* C6: right after format_output(lvl_data), a second format_output(lvl_data)
\* leaves the findings table as it is: no {DIM}_ID column of a dimension
\* whose hierarchy loads is left to convert
C6_FormatIdempotent ==
    Formatted =>
        /\ FormatOutput(dqo, tables, lvl_data) = dqo
        /\ \A k \in 1..Len(lvl_data) :
              Loads(tables, lvl_data[k][2]) => (lvl_data[k][1] \o "_ID") \notin dqo.cols

\* format_output has converted the product and the location columns
C6_Witness ==
    /\ pc = "format_output"
    /\ "PRODUCT_LVL" \in dqo.cols
    /\ "LOCATION_LVL" \in dqo.cols
    /\ Len(dqo.rows) > 1

\* C8: whatever the findings table held before, after check() it holds the
\* findings of the stages VALUE_RANGE, CROSS_CONSISTENCY, TIME_CONSISTENCY,
\* FORMAT run in this order from an empty table: a function of the
\* configuration and the source tables alone
C8_CheckNotCumulative ==
    pc = "DONE" => dqo = FreshCheck(tables, input_tables, th_values, lvl_data)

\* check() has replaced a findings table that held more rows than it found
C8_Witness ==
    /\ pc = "DONE"
    /\ "total_issues" \in DOMAIN summary
    /\ summary["total_issues"] > Len(dqo.rows)
    /\ Len(dqo.rows) > 0

RuleTags == {"val_range", "cross_consistency", "time_cross_consistency"}

\* the finding carries WARNING_TYPE, INPUT_TABLE and WARNING
HasMetadata(f) ==
    /\ {"WARNING_TYPE", "INPUT_TABLE", "WARNING"} \subseteq DOMAIN f
    /\ f["WARNING_TYPE"] # <<>> /\ f["WARNING_TYPE"][1] \in RuleTags
    /\ f["INPUT_TABLE"] # <<>>
    /\ f["WARNING"] # <<>>

\* C9 as claimed: every finding carries its metadata and an INPUT_VALUE
C9_EveryFindingHasInputValue ==
    \A i \in 1..Len(dqo.rows) :
        /\ HasMetadata(dqo.rows[i])
        /\ "INPUT_VALUE" \in dqo.cols
        /\ dqo.rows[i]["INPUT_VALUE"] # <<>>

\* C9: every finding carries a WARNING_TYPE of the three tags, an INPUT_TABLE
\* and a WARNING; a val_range or time_cross_consistency finding carries the
\* threshold of its check as INPUT_VALUE, a cross_consistency finding carries
\* none; INPUT_COLUMN is set for the val_range findings only
C9_FindingMetadata ==
    \A i \in 1..Len(dqo.rows) :
        LET f == dqo.rows[i] IN
        /\ HasMetadata(f)
        /\ f["WARNING_TYPE"][1] \in {"val_range", "time_cross_consistency"} =>
              /\ "INPUT_VALUE" \in DOMAIN f
              /\ f["INPUT_VALUE"] = <<th_values[f["WARNING_TYPE"][1]]>>
        /\ f["WARNING_TYPE"][1] = "cross_consistency" =>
              ("INPUT_VALUE" \in DOMAIN f => f["INPUT_VALUE"] = <<>>)
        /\ f["WARNING_TYPE"][1] = "val_range" <=>
              ("INPUT_COLUMN" \in DOMAIN f /\ f["INPUT_COLUMN"] # <<>>)

\* findings of the three kinds stand side by side in a formatted table
C9_Witness ==
    /\ \A t \in RuleTags :
          \E i \in 1..Len(dqo.rows) : dqo.rows[i]["WARNING_TYPE"] = <<t>>
    /\ "LOCATION_LVL" \in dqo.cols

\* WARNING_TYPE, INPUT_TABLE and WARNING of a finding
Metadata(f) == [c \in {"WARNING_TYPE", "INPUT_TABLE", "WARNING"} |-> f[c]]

RECURSIVE SumOver(_, _)
SumOver(f, S) ==
    IF S = {} THEN 0
    ELSE LET x == CHOOSE y \in S : TRUE IN f[x] + SumOver(f, S \ {x})

\* C10: a checker stage of check() only appends findings, the FORMAT stage
\* keeps the findings and their WARNING_TYPE, INPUT_TABLE and WARNING, and at
\* the end the per-stage counts add up to the number of findings
C10_NoFindingLost ==
    [][/\ pc \in {"VALUE_RANGE", "CROSS_CONSISTENCY", "TIME_CONSISTENCY"} =>
            /\ Len(dqo'.rows) >= Len(dqo.rows)
            /\ \A i \in 1..Len(dqo.rows) :
                  Metadata(dqo'.rows[i]) = Metadata(dqo.rows[i])
       /\ pc = "FORMAT" =>
            /\ Len(dqo'.rows) = Len(dqo.rows)
            /\ \A i \in 1..Len(dqo.rows) :
                  Metadata(dqo'.rows[i]) = Metadata(dqo.rows[i])
            /\ SumOver(found', DOMAIN found') = Len(dqo'.rows)
      ]_vars

\* a check() in which every checker stage added findings, one dimension was
\* converted and another failed to load
C10_Witness ==
    /\ pc = "DONE"
    /\ DOMAIN found = RuleTags
    /\ \A t \in RuleTags : found[t] > 0
    /\ "LOCATION_LVL" \in dqo.cols
    /\ lvl_data[1][2] = "PRODUCT_HIER"
    /\ ~Loads(tables, "PRODUCT_HIER")
    /\ "PRODUCT_ID" \in dqo.cols
    /\ Loads(tables, "STOCK")

====
